---- MODULE Spec2Model ----
(***************************************************************************)
(* Verification model of the meta-training core of l2o:                    *)
(*   - policies/perturbations.py  (Base/Random/FGSM/PGD perturbations)     *)
(*   - train/step_mixins.py       (StepMixin: train / validation step)     *)
(*   - train/strategies/strategy.py (BaseStrategy: learning period and     *)
(*                                   summary ledger)                        *)
(*   - optimizer/imitation_mixins.py (ImitationLossMixin.imitation_loss)   *)
(*                                                                         *)
(* Numbers.  Tensors are modelled over the integers.  Perturbation values  *)
(* are counted in units of 0.005 (the default PGD learning rate), so the   *)
(* default FGSM step_size 0.01 and PGD magnitude 0.01 are both 2.  Every   *)
(* perturbable variable is a one-component tensor.  Means are exact        *)
(* rationals [num, den] in lowest terms.                                   *)
(***************************************************************************)
EXTENDS Integers, Sequences, FiniteSets, TLC

VARIABLES
    \* ---- Distributed step executor (step_mixins.py) ----
    perturbation,           \* self.network.perturbation (its class and arguments)
    num_replicas,           \* replicas of tf.distribute.get_strategy()
    trainable_variables,    \* self.network.trainable_variables (mirrored, one value)
    perturbable_variables,  \* ptb.perturbable_variables, one copy per replica
    validation,             \* meta.validation of the step built last
    step,                   \* step function built last: "none", "train", "valid"
    pc,                     \* per replica: position inside _inner
    rounds,                 \* per replica: adversarial rounds executed in this step
    results,                \* per replica: results of the last _get_loss / abstract_loss
    clipped,                \* per replica: clipped weight gradient
    outcome,                \* how the last step call ended, and its summary
    calls,                  \* number of step calls issued so far
    \* history of the current step, for stating the claims
    entry_weights,          \* trainable_variables when the step was entered
    entry_perturbable,      \* perturbable_variables when a validation step was entered
    trace,                  \* per replica: stages of _inner executed, in order
    loss_at,                \* per replica: perturbation under which results were computed
    \* ---- A perturbation object on its own (perturbations.py) ----
    ptb,                    \* the perturbation (its class and arguments), built
    noise,                  \* its perturbable_variables
    applies,                \* apply_gradients calls since the last reset
    resets,                 \* reset calls in a row since the last apply_gradients
    before_reset,           \* noise before the first reset of the current row
    \* ---- Strategy and its ledger (strategies/strategy.py) ----
    config,                 \* constructor arguments of the strategy
    dir_exists,             \* the working directory exists
    foreign,                \* it holds files that no strategy wrote
    checkpoints,            \* the checkpoint files in it, by the arguments of _path
    csv,                    \* <directory>/summary.csv
    constructed,            \* a strategy object exists in the running process
    strategy,               \* its attributes problems, validation_problems, epochs_per_period
    summary,                \* self.summary, the in-memory ledger (a DataFrame)
    hooks,                  \* calls of _start and _resume made by __init__
    lp,                     \* _learning_period: position and training_loss so far
    runs,                   \* calls of _run_training_loop in the current period
    period,                 \* the TrainingPeriod returned last
    \* history of the ledger, for stating the claims
    base_rows,              \* rows of self.summary when __init__ returned
    appended,               \* _append calls since __init__ returned
    prev_summary,           \* self.summary before the last _append
    last_row,               \* new_row of the last _append
    crash,                  \* the last process death inside _append, until the next __init__
    found,                  \* the last _lookup call and how it ended, until the next operation
    replayed,               \* self.summary of the first __init__ since summary.csv was last written
    \* ---- One call of imitation_loss (optimizer/imitation_mixins.py) ----
    imitation,              \* its arguments and self.use_log_objective
    unroll_params,          \* unroll_state.params, the learner's parameters
    teacher_variables,      \* problem.trainable_variables, one variable set per teacher
    unroll_i,               \* iterations of the loop completed
    loss,                   \* the local loss
    returned,               \* the call has returned
    \* history of the call, for stating the claims
    measured                \* per iteration: both parameter sets when d_loss was taken

step_vars == <<perturbation, num_replicas, trainable_variables,
               perturbable_variables, validation, step, pc, rounds, results,
               clipped, outcome, calls, entry_weights, entry_perturbable,
               trace, loss_at>>

ptb_vars == <<ptb, noise, applies, resets, before_reset>>

strategy_vars == <<config, dir_exists, foreign, checkpoints, csv,
                   constructed, strategy, summary, hooks, lp, runs, period,
                   base_rows, appended, prev_summary, last_row, crash, found,
                   replayed>>

imitation_vars == <<imitation, unroll_params, teacher_variables, unroll_i,
                    loss, returned, measured>>

vars == <<step_vars, ptb_vars, strategy_vars, imitation_vars>>

(***************************************************************************)
(* Bounds of the model.                                                    *)
(***************************************************************************)
MaxReplicas == 2
MaxAttackSteps == 2
MaxCalls == 2
MaxApplies == 3
MaxResets == 2
MaxRows == 2
MaxUnroll == 2
MaxTeachers == 2

(***************************************************************************)
(* Generic helpers.                                                        *)
(***************************************************************************)
Abs(x) == IF x < 0 THEN -x ELSE x

RECURSIVE Gcd(_, _)
Gcd(a, b) == IF b = 0 THEN a ELSE Gcd(b, a % b)

RECURSIVE SeqSum(_)
SeqSum(s) == IF s = <<>> THEN 0 ELSE Head(s) + SeqSum(Tail(s))

Range(s) == {s[i] : i \in DOMAIN s}

\* The rational n/d (d > 0) in lowest terms.
Rat(n, d) == LET g == Gcd(Abs(n), d) IN [num |-> n \div g, den |-> d \div g]

Mean(num, den) == Rat(num, den)

(***************************************************************************)
(* policies/perturbations.py                                               *)
(***************************************************************************)
step_size == 2        \* FGSMPerturbation(step_size=0.01)
magnitude == 2        \* PGDPerturbation(magnitude=0.01)
learning_rate == 1    \* PGDPerturbation(learning_rate=0.005)

Norms == {"l2", "scale", "inf"}

\* The perturbation objects a network can be configured with.
Perturbations ==
    {[cls |-> c, steps |-> 0, norm |-> "none"] : c \in {"Base", "Random"}}
    \cup {[cls |-> "FGSM", steps |-> 1, norm |-> "none"]}
    \cup {[cls |-> "PGD", steps |-> k, norm |-> n] :
            k \in 0..MaxAttackSteps, n \in Norms}

\* Class attribute adversarial_attack_steps: 0 for Base and Random, 1 for
\* FGSM, the constructor argument `steps` for PGD.
adversarial_attack_steps(p) ==
    CASE p.cls = "PGD"  -> p.steps
      [] p.cls = "FGSM" -> 1
      [] OTHER          -> 0

\* Gradients of the loss with respect to the perturbable variables that the
\* tape can return in one adversarial round (one entry per variable).
PtbGrads == {<<1, -3>>, <<0, 0>>}

\* build(): one zero variable per trainable variable of the problem.  Base
\* and Random perturbations build nothing.
zeros_like(v) == [i \in DOMAIN v |-> 0]

build(p) ==
    IF p.cls \in {"FGSM", "PGD"} THEN zeros_like(<<0, 0>>) ELSE <<>>

sign(x) == IF x > 0 THEN 1 ELSE IF x < 0 THEN -1 ELSE 0

\* tf.clip_by_norm on a one-component tensor: t * clip / max(|t|, clip).
clip_by_norm(t, clip) == IF Abs(t) > clip THEN sign(t) * clip ELSE t

clip_by_value(t, lo, hi) == IF t < lo THEN lo ELSE IF t > hi THEN hi ELSE t

\* tf.size of a perturbable variable (one component).
size(t) == 1

\* Mutant of reset: the noise variables are left as they are.
reset_skipped(p, v) == v

\* reset(): `pass` for Base/Random, assign zeros for FGSM/PGD.
reset(p, v) ==
    IF p.cls \in {"FGSM", "PGD"} THEN zeros_like(v) ELSE v

FGSM_apply_gradients(v, g) ==
    [i \in DOMAIN v |-> v[i] + sign(g[i]) * step_size]

\* Mutant of PGD_apply_gradients: the step is taken without the projection.
PGD_apply_gradients_unprojected(p, v, g) ==
    [i \in DOMAIN v |-> v[i] + g[i] * learning_rate]

PGD_apply_gradients(p, v, g) ==
    [i \in DOMAIN v |->
        LET param_new == v[i] + g[i] * learning_rate IN
        CASE p.norm = "l2"    -> clip_by_norm(param_new, magnitude)
          [] p.norm = "scale" -> clip_by_norm(param_new, magnitude * size(v[i]))
          [] p.norm = "inf"   -> clip_by_value(param_new, -magnitude, magnitude)
          [] OTHER            -> v[i]]

\* apply_gradients(): `pass` for Base/Random.
apply_gradients(p, v, g) ==
    CASE p.cls = "FGSM" -> FGSM_apply_gradients(v, g)
      [] p.cls = "PGD"  -> PGD_apply_gradients(p, v, g)
      [] OTHER          -> v

\* Gradients handed to apply_gradients when the object is driven on its own.
NoiseGrads == {<<a, b>> : a \in {-3, 0, 1}, b \in {-1, 2}}

PtbInit ==
    /\ ptb \in Perturbations
    /\ noise = build(ptb)
    /\ applies = 0
    /\ resets = 0
    /\ before_reset = build(ptb)

\* ptb.apply_gradients(zip(ptb.perturbable_variables, grads))
ApplyGradients(g) ==
    /\ applies < MaxApplies
    /\ noise' = apply_gradients(ptb, noise, g)
    /\ applies' = applies + 1
    /\ resets' = 0
    /\ UNCHANGED <<ptb, before_reset>>

\* ptb.reset()
Reset ==
    /\ resets < MaxResets
    /\ noise' = reset(ptb, noise)
    /\ resets' = resets + 1
    /\ applies' = 0
    /\ before_reset' = IF resets = 0 THEN noise ELSE before_reset
    /\ UNCHANGED ptb

PtbNext ==
    \/ \E g \in NoiseGrads : ApplyGradients(g) /\ UNCHANGED <<step_vars, strategy_vars, imitation_vars>>
    \/ Reset /\ UNCHANGED <<step_vars, strategy_vars, imitation_vars>>

(***************************************************************************)
(* train/step_mixins.py                                                    *)
(***************************************************************************)
Replicas == 1..num_replicas

\* Per-replica values abstract_loss can return: (meta_loss, imitation_loss).
Results == {[meta_loss |-> 2, imitation_loss |-> 1],
            [meta_loss |-> 4, imitation_loss |-> 3],
            [meta_loss |-> 4, imitation_loss |-> 4]}
NoResults == [meta_loss |-> 0, imitation_loss |-> 0]

\* Gradients of the loss with respect to the trainable weights.
WeightGrads == {-2, 1}

\* self.gradient_clipping.clip: clipping of the weight gradient.
clip(g) == clip_by_value(g, -1, 1)

\* How a step call stands: not called yet ("none"), "running", "returned"
\* with its summary, or "raised".
Outcome(status) == [status |-> status, meta_loss |-> Rat(0, 1),
                    imitation_loss |-> Rat(0, 1)]

RECURSIVE ReplicaSum(_, _)
ReplicaSum(f, n) == IF n = 0 THEN 0 ELSE f[n] + ReplicaSum(f, n - 1)

\* Mutant of reduce_mean: ReduceOp.SUM.
reduce_sum(f, n) == Rat(ReplicaSum(f, n), 1)

\* distribute.reduce(ReduceOp.MEAN, per_replica, axis=None)

reduce_mean(f, n) == Mean(ReplicaSum(f, n), n)

\* _summarize: the means over the replicas of both losses.
summarize(res, n) ==
    [status |-> "returned",
     meta_loss |-> reduce_mean([r \in 1..n |-> res[r].meta_loss], n),
     imitation_loss |-> reduce_mean([r \in 1..n |-> res[r].imitation_loss], n)]

\* distribute.run executes the replica bodies one after the other, each up to
\* its next cross-replica synchronisation (optimizer.apply_gradients) or its
\* return; replica r runs once the replicas before it have got there.
Turn(r) ==
    /\ outcome.status = "running"
    /\ \A q \in 1..(r - 1) : pc[q] \in {"apply", "done"}

\* Value of the history variables loss_at and entry_perturbable while they
\* record nothing.
NoLoss == [r \in Replicas |-> build(perturbation)]

\* Mutant of make_concrete_step: the two branches exchanged.
make_concrete_step_swapped(v) == IF v THEN "train" ELSE "valid"

\* make_concrete_step: the step function selected by meta.validation.
make_concrete_step(v) == IF v THEN "valid" ELSE "train"

StepInit ==
    /\ perturbation \in Perturbations
    /\ num_replicas \in 1..MaxReplicas
    /\ trainable_variables = 0
    /\ perturbable_variables = [r \in 1..num_replicas |-> build(perturbation)]
    /\ validation = FALSE
    /\ step = "none"
    /\ pc = [r \in 1..num_replicas |-> "idle"]
    /\ rounds = [r \in 1..num_replicas |-> 0]
    /\ results = [r \in 1..num_replicas |-> NoResults]
    /\ clipped = [r \in 1..num_replicas |-> 0]
    /\ outcome = Outcome("none")
    /\ calls = 0
    /\ entry_weights = 0
    /\ entry_perturbable = NoLoss
    /\ trace = [r \in 1..num_replicas |-> <<>>]
    /\ loss_at = NoLoss

\* A caller builds a concrete step for a MetaIteration and calls it.
CallStep(v) ==
    /\ outcome.status # "running"
    /\ calls < MaxCalls
    /\ calls' = calls + 1
    /\ validation' = v
    /\ step' = make_concrete_step(v)
    /\ pc' = [r \in Replicas |-> IF step' = "train" THEN "reset" ELSE "loss"]
    /\ rounds' = [r \in Replicas |-> 0]
    /\ results' = [r \in Replicas |-> NoResults]
    /\ clipped' = [r \in Replicas |-> 0]
    /\ outcome' = Outcome("running")
    /\ entry_weights' = trainable_variables
    /\ entry_perturbable' =
         IF step' = "valid" THEN perturbable_variables ELSE NoLoss
    /\ trace' = [r \in Replicas |-> <<>>]
    /\ loss_at' = NoLoss
    /\ UNCHANGED <<perturbation, num_replicas, trainable_variables,
                   perturbable_variables>>

\* abstract_train_step._inner, line 60: ptb.reset()
TrainReset(r) ==
    /\ step = "train" /\ pc[r] = "reset" /\ Turn(r)
    /\ perturbable_variables' =
         [perturbable_variables EXCEPT ![r] = reset(perturbation, @)]
    /\ pc' = [pc EXCEPT ![r] = "loop"]
    /\ trace' = [trace EXCEPT ![r] = Append(@, "reset")]
    /\ UNCHANGED <<perturbation, num_replicas, trainable_variables,
                   validation, step, rounds, results, clipped, outcome, calls,
                   entry_weights, entry_perturbable, loss_at>>

\* Mutant of AdversarialRound: the loop bound is off by one.
AdversarialRound_extra(r) ==
    /\ step = "train" /\ pc[r] = "loop" /\ Turn(r)
    /\ rounds[r] <= adversarial_attack_steps(perturbation)
    /\ \E g \in PtbGrads, res \in Results :
         /\ results' = [results EXCEPT ![r] = res]
         /\ perturbable_variables' =
              [perturbable_variables EXCEPT
                 ![r] = apply_gradients(perturbation, @, g)]
    /\ rounds' = [rounds EXCEPT ![r] = @ + 1]
    /\ trace' = [trace EXCEPT ![r] = Append(@, "round")]
    /\ UNCHANGED <<perturbation, num_replicas, trainable_variables,
                   validation, step, pc, clipped, outcome, calls,
                   entry_weights, entry_perturbable, loss_at>>

\* _inner, lines 61-68: one round of the adversarial sub-loop.
AdversarialRound(r) ==
    /\ step = "train" /\ pc[r] = "loop" /\ Turn(r)
    /\ rounds[r] < adversarial_attack_steps(perturbation)
    /\ \E g \in PtbGrads, res \in Results :
         /\ results' = [results EXCEPT ![r] = res]
         /\ perturbable_variables' =
              [perturbable_variables EXCEPT
                 ![r] = apply_gradients(perturbation, @, g)]
    /\ rounds' = [rounds EXCEPT ![r] = @ + 1]
    /\ trace' = [trace EXCEPT ![r] = Append(@, "round")]
    /\ UNCHANGED <<perturbation, num_replicas, trainable_variables,
                   validation, step, pc, clipped, outcome, calls,
                   entry_weights, entry_perturbable, loss_at>>

\* Mutant of MetaGradient: the perturbation is reset before the meta step.
MetaGradient_after_reset(r) ==
    /\ step = "train" /\ pc[r] = "loop" /\ Turn(r)
    /\ rounds[r] >= adversarial_attack_steps(perturbation)
    /\ \E res \in Results, g \in WeightGrads :
         /\ results' = [results EXCEPT ![r] = res]
         /\ clipped' = [clipped EXCEPT ![r] = g]
    /\ perturbable_variables' =
         [perturbable_variables EXCEPT ![r] = reset(perturbation, @)]
    /\ loss_at' = [loss_at EXCEPT ![r] = perturbable_variables'[r]]
    /\ pc' = [pc EXCEPT ![r] = "clip"]
    /\ trace' = [trace EXCEPT ![r] = @ \o <<"reset", "grad">>]
    /\ UNCHANGED <<perturbation, num_replicas, trainable_variables,
                   validation, step, rounds, outcome, calls, entry_weights,
                   entry_perturbable>>

\* Mutant of MetaGradient: the raw gradient is applied to the weights at once.
MetaGradient_updates(r) ==
    /\ step = "train" /\ pc[r] = "loop" /\ Turn(r)
    /\ rounds[r] >= adversarial_attack_steps(perturbation)
    /\ \E res \in Results, g \in WeightGrads :
         /\ results' = [results EXCEPT ![r] = res]
         /\ clipped' = [clipped EXCEPT ![r] = g]
         /\ trainable_variables' = trainable_variables - g
    /\ loss_at' = [loss_at EXCEPT ![r] = perturbable_variables[r]]
    /\ pc' = [pc EXCEPT ![r] = "clip"]
    /\ trace' = [trace EXCEPT ![r] = Append(@, "grad")]
    /\ UNCHANGED <<perturbation, num_replicas, perturbable_variables,
                   validation, step, rounds, outcome, calls, entry_weights,
                   entry_perturbable>>

\* _inner, lines 71-74: loss and its gradient with respect to the weights.
MetaGradient(r) ==
    /\ step = "train" /\ pc[r] = "loop" /\ Turn(r)
    /\ rounds[r] >= adversarial_attack_steps(perturbation)
    /\ \E res \in Results, g \in WeightGrads :
         /\ results' = [results EXCEPT ![r] = res]
         /\ clipped' = [clipped EXCEPT ![r] = g]
    /\ loss_at' = [loss_at EXCEPT ![r] = perturbable_variables[r]]
    /\ pc' = [pc EXCEPT ![r] = "clip"]
    /\ trace' = [trace EXCEPT ![r] = Append(@, "grad")]
    /\ UNCHANGED <<perturbation, num_replicas, trainable_variables,
                   perturbable_variables, validation, step, rounds, outcome,
                   calls, entry_weights, entry_perturbable>>

\* _inner, lines 76-77: gradient clipping.
ClipGradient(r) ==
    /\ step = "train" /\ pc[r] = "clip" /\ Turn(r)
    /\ clipped' = [clipped EXCEPT ![r] = clip(@)]
    /\ pc' = [pc EXCEPT ![r] = "apply"]
    /\ trace' = [trace EXCEPT ![r] = Append(@, "clip")]
    /\ UNCHANGED <<perturbation, num_replicas, trainable_variables,
                   perturbable_variables, validation, step, rounds, results,
                   outcome, calls, entry_weights, entry_perturbable, loss_at>>

\* _inner, lines 78-79: optimizer.apply_gradients.  In a replica context the
\* call merges across replicas: the summed gradient is applied once, when
\* every replica has reached the call.
OuterUpdate ==
    /\ step = "train" /\ outcome.status = "running"
    /\ \A r \in Replicas : pc[r] = "apply"
    /\ trainable_variables' =
         trainable_variables - ReplicaSum(clipped, num_replicas)
    /\ pc' = [r \in Replicas |-> "reset2"]
    /\ trace' = [r \in Replicas |-> Append(trace[r], "apply")]
    /\ UNCHANGED <<perturbation, num_replicas, perturbable_variables,
                   validation, step, rounds, results, clipped, outcome, calls,
                   entry_weights, entry_perturbable, loss_at>>

\* _inner, lines 82-84: the final ptb.reset() and return results.
TrainResetAfter(r) ==
    /\ step = "train" /\ pc[r] = "reset2" /\ Turn(r)
    /\ perturbable_variables' =
         [perturbable_variables EXCEPT ![r] = reset(perturbation, @)]
    /\ pc' = [pc EXCEPT ![r] = "done"]
    /\ trace' = [trace EXCEPT ![r] = Append(@, "reset")]
    /\ UNCHANGED <<perturbation, num_replicas, trainable_variables,
                   validation, step, rounds, results, clipped, outcome, calls,
                   entry_weights, entry_perturbable, loss_at>>

\* abstract_valid_step._inner, line 95: the loss computation alone.
ValidLoss(r) ==
    /\ step = "valid" /\ pc[r] = "loss" /\ Turn(r)
    /\ \E res \in Results : results' = [results EXCEPT ![r] = res]
    /\ loss_at' = [loss_at EXCEPT ![r] = perturbable_variables[r]]
    /\ pc' = [pc EXCEPT ![r] = "done"]
    /\ trace' = [trace EXCEPT ![r] = Append(@, "loss")]
    /\ UNCHANGED <<perturbation, num_replicas, trainable_variables,
                   perturbable_variables, validation, step, rounds, clipped,
                   outcome, calls, entry_weights, entry_perturbable>>

\* The locals of the replica bodies (rounds, clipped, and on an exception the
\* results) die with the call; the model clears them when the step ends.

\* An exception raised inside a replica body: by the loss evaluation, the
\* gradient computation or ptb.apply_gradients of an adversarial round, by the
\* loss evaluation or gradient computation of the meta step, by the clipping
\* policy, or by the loss evaluation of a validation step.  It propagates out
\* of distribute.run and out of the step.
Raise(r) ==
    /\ pc[r] \in {"loop", "clip", "loss"} /\ Turn(r)
    /\ outcome' = Outcome("raised")
    /\ rounds' = [q \in Replicas |-> 0]
    /\ results' = [q \in Replicas |-> NoResults]
    /\ clipped' = [q \in Replicas |-> 0]
    /\ loss_at' = NoLoss
    /\ UNCHANGED <<perturbation, num_replicas, trainable_variables,
                   perturbable_variables, validation, step, pc, calls,
                   entry_weights, entry_perturbable, trace>>

\* Mutant of Summarize: the reduction starts as soon as one replica is done.
Summarize_early ==
    /\ outcome.status = "running"
    /\ \E r \in Replicas : pc[r] = "done"
    /\ outcome' = summarize(results, num_replicas)
    /\ rounds' = [r \in Replicas |-> 0]
    /\ clipped' = [r \in Replicas |-> 0]
    /\ loss_at' = NoLoss
    /\ UNCHANGED <<perturbation, num_replicas, trainable_variables,
                   perturbable_variables, validation, step, pc, results,
                   calls, entry_weights, entry_perturbable, trace>>

\* abstract_*_step, lines 86-88 and 97-99: distribute.run has returned the
\* per-replica results, and _summarize reduces them.
Summarize ==
    /\ outcome.status = "running"
    /\ \A r \in Replicas : pc[r] = "done"
    /\ outcome' = summarize(results, num_replicas)
    /\ rounds' = [r \in Replicas |-> 0]
    /\ clipped' = [r \in Replicas |-> 0]
    /\ loss_at' = NoLoss
    /\ UNCHANGED <<perturbation, num_replicas, trainable_variables,
                   perturbable_variables, validation, step, pc, results,
                   calls, entry_weights, entry_perturbable, trace>>

StepNext ==
    \/ \E v \in BOOLEAN : CallStep(v) /\ UNCHANGED <<ptb_vars, strategy_vars, imitation_vars>>
    \/ \E r \in Replicas : TrainReset(r) /\ UNCHANGED <<ptb_vars, strategy_vars, imitation_vars>>
    \/ \E r \in Replicas : AdversarialRound(r) /\ UNCHANGED <<ptb_vars, strategy_vars, imitation_vars>>
    \/ \E r \in Replicas : MetaGradient(r) /\ UNCHANGED <<ptb_vars, strategy_vars, imitation_vars>>
    \/ \E r \in Replicas : ClipGradient(r) /\ UNCHANGED <<ptb_vars, strategy_vars, imitation_vars>>
    \/ OuterUpdate /\ UNCHANGED <<ptb_vars, strategy_vars, imitation_vars>>
    \/ \E r \in Replicas : TrainResetAfter(r) /\ UNCHANGED <<ptb_vars, strategy_vars, imitation_vars>>
    \/ \E r \in Replicas : ValidLoss(r) /\ UNCHANGED <<ptb_vars, strategy_vars, imitation_vars>>
    \/ \E r \in Replicas : Raise(r) /\ UNCHANGED <<ptb_vars, strategy_vars, imitation_vars>>
    \/ Summarize /\ UNCHANGED <<ptb_vars, strategy_vars, imitation_vars>>

(***************************************************************************)
(* train/strategies/strategy.py                                            *)
(***************************************************************************)
\* A float cell of a DataFrame is a rational; NaN is the cell of a column a
\* row has no value for.
NaN == [num |-> 0, den |-> 0]

RatAdd(a, b) == Rat(a.num * b.den + b.num * a.den, a.den * b.den)

RECURSIVE RatSum(_)
RatSum(s) == IF s = <<>> THEN Rat(0, 1) ELSE RatAdd(Head(s), RatSum(Tail(s)))

\* np.mean of a non-empty sequence of numbers.
np_mean(s) == LET t == RatSum(s) IN Rat(t.num, t.den * Len(s))

Floats(s) == [i \in DOMAIN s |-> Rat(s[i], 1)]

TrainingPeriod(mean, losses, validation_loss) ==
    [training_loss_mean |-> mean, training_loss |-> losses,
     validation_loss |-> validation_loss]

NoPeriod == TrainingPeriod(Rat(0, 1), <<>>, Rat(0, 1))

\* "training_loss_{}".format(i)
TrainingLossColumns ==
    <<"training_loss_0", "training_loss_1", "training_loss_2",
      "training_loss_3">>

training_loss_(i) == TrainingLossColumns[i + 1]

\* BaseStrategy.COLUMNS, line 88: no additional summary keys.
COLUMNS == <<>>

\* The **kwargs a caller hands to _append, lines 144 and 152: the index of
\* the period the row is for.
Kwargs ==
    {[keys |-> <<"period">>, val |-> [c \in {"period"} |-> Rat(k, 1)]] :
        k \in {0}}

\* The problem sets, already ProblemSpec lists.
TrainingProblems == "P"
ValidationArgs == {"None", "V"}

\* The epochs_per_period arguments a strategy is constructed with.
EpochsPerPeriod == {1, 2}

\* _deserialize_problems(pset, default=None)
deserialize_problems(pset, default) ==
    IF pset # "None" THEN pset ELSE default

\* What learner.train returns for one run: the losses of its steps.
RunResults == {<<1>>, <<1, 2>>}

\* What it returns for a validation run.
ValidationResults == {<<1>>}

EmptyFrame == [columns |-> <<>>, rows |-> <<>>]
NoFile == [exists |-> FALSE, header |-> <<>>, lines |-> <<>>]
NoRow == [keys |-> <<>>, val |-> <<>>]

\* Mutant of fresh_summary: the per-epoch columns are left out.
fresh_summary_without_epochs(e) ==
    [columns |-> <<"training_loss_mean", "validation_loss">> \o COLUMNS,
     rows |-> <<>>]

\* __init__, lines 116-123: the empty DataFrame of a fresh start.
fresh_summary(e) ==
    [columns |-> <<"training_loss_mean", "validation_loss">> \o COLUMNS
                   \o [i \in 1..e |-> training_loss_(i - 1)],
     rows |-> <<>>]

\* _append, lines 146-152: the dict new_row, with its keys in order.
new_row(res, kwargs) ==
    LET n == Len(res.training_loss)
        period_losses == [i \in 1..n |-> training_loss_(i - 1)]
        own == {"training_loss_mean", "validation_loss"} \cup Range(period_losses)
    IN [keys |-> <<"training_loss_mean", "validation_loss">>
                   \o period_losses \o kwargs.keys,
        val |-> [c \in own \cup Range(kwargs.keys) |->
                   IF c \in Range(kwargs.keys) THEN kwargs.val[c]
                   ELSE IF c = "training_loss_mean" THEN res.training_loss_mean
                   ELSE IF c = "validation_loss" THEN res.validation_loss
                   ELSE res.training_loss[
                          CHOOSE i \in 1..n : period_losses[i] = c]]]

\* Mutant of df_append: the new row is put in front of the others.
df_append_front(df, row) ==
    LET extra == SelectSeq(row.keys, LAMBDA k : k \notin Range(df.columns))
        cols == df.columns \o extra
        widen(r) == [c \in Range(cols) |-> IF c \in DOMAIN r THEN r[c] ELSE NaN]
    IN [columns |-> cols,
        rows |-> <<widen(row.val)>> \o [i \in DOMAIN df.rows |-> widen(df.rows[i])]]

\* DataFrame.append(new_row, ignore_index=True): a new frame with the row
\* added last; columns the frame lacks are added, cells without a value are NaN.
df_append(df, row) ==
    LET extra == SelectSeq(row.keys, LAMBDA k : k \notin Range(df.columns))
        cols == df.columns \o extra
        widen(r) == [c \in Range(cols) |-> IF c \in DOMAIN r THEN r[c] ELSE NaN]
    IN [columns |-> cols,
        rows |-> [i \in DOMAIN df.rows |-> widen(df.rows[i])] \o <<widen(row.val)>>]

\* The text of a cell: empty for NaN, else the number written out.
Cell(x) == IF x = NaN THEN <<>> ELSE <<x>>

Value(cell) == IF cell = <<>> THEN NaN ELSE cell[1]

\* DataFrame.to_csv(path, index=False): a header line and one line per row,
\* the cells in column order; the file is replaced.
to_csv(df) ==
    [exists |-> TRUE,
     header |-> df.columns,
     lines |-> [i \in DOMAIN df.rows |->
                  [j \in DOMAIN df.columns |-> Cell(df.rows[i][df.columns[j]])]]]

\* pd.read_csv(path) of an existing file with a header line; a line with
\* fewer cells than the header is padded with NaN.
read_csv(f) ==
    [columns |-> f.header,
     rows |-> [i \in DOMAIN f.lines |->
                 [c \in Range(f.header) |->
                    LET j == CHOOSE k \in DOMAIN f.header : f.header[k] = c
                    IN IF j <= Len(f.lines[i]) THEN Value(f.lines[i][j])
                       ELSE NaN]]]

\* What a process death inside to_csv can leave of the file f it was
\* writing: the file opened for writing with nothing in it yet, or the
\* header with some of the lines, the last of them possibly cut short (here
\* after its first cell).
Truncations(f) ==
    {[exists |-> TRUE, header |-> <<>>, lines |-> <<>>]}
    \cup {[exists |-> TRUE, header |-> f.header,
           lines |-> SubSeq(f.lines, 1, k)] : k \in 0..Len(f.lines)}
    \cup {[exists |-> TRUE, header |-> f.header,
           lines |-> Append(SubSeq(f.lines, 1, k - 1),
                            SubSeq(f.lines[k], 1, 1))] : k \in DOMAIN f.lines}

\* What the _resume / _start of a strategy class can do when __init__ calls it.
HookOutcomes == {"returns", "FileNotFoundError", "raises"}

NoHooks == [start |-> 0, resume |-> 0]

\* The arguments _save_network hands to _path: the index of a period.
PathArgs == {<<0>>}

NoCrash == [at |-> "none", before |-> NoFile, line |-> <<>>]

\* The keyword arguments _lookup and _filter are called with.
LookupKwargs ==
    {[keys |-> <<"period">>, val |-> [c \in {"period"} |-> Rat(0, 1)]],
     [keys |-> <<"period">>, val |-> [c \in {"period"} |-> Rat(1, 1)]],
     [keys |-> <<"training_loss_mean">>,
      val |-> [c \in {"training_loss_mean"} |-> Rat(3, 2)]],
     [keys |-> <<"period", "validation_loss">>,
      val |-> [c \in {"period", "validation_loss"} |-> Rat(IF c = "period" THEN 0 ELSE 1, 1)]]}

NoReplay == [made |-> FALSE, summary |-> EmptyFrame]

NoLookup == [status |-> "none", row |-> <<>>, kwargs |-> NoRow]

\* filtered[k] == v, line 163: the rows whose cell in column k equals v; a
\* NaN cell equals nothing.
Equals(df, idx, k, v) ==
    SelectSeq(idx, LAMBDA i : df.rows[i][k] # NaN /\ df.rows[i][k] = v)

\* _filter(**kwargs), lines 158-166, as the indexes of the rows it keeps, in
\* the order of the frame.  Selecting a column the frame lacks raises
\* KeyError; selecting rows by a boolean mask never raises IndexError.
RECURSIVE filter_from(_, _, _, _)
filter_from(df, idx, keys, val) ==
    IF keys = <<>> THEN [status |-> "returns", idx |-> idx]
    ELSE IF Head(keys) \notin Range(df.columns)
    THEN [status |-> "KeyError", idx |-> <<>>]
    ELSE filter_from(df, Equals(df, idx, Head(keys), val[Head(keys)]),
                     Tail(keys), val)

filter(df, kwargs) ==
    filter_from(df, [i \in DOMAIN df.rows |-> i], kwargs.keys, kwargs.val)

\* _lookup(**kwargs), lines 168-174: _filter returns a frame, never None, so
\* line 172 takes the row at position 0 of it; iloc[0] of a frame without
\* rows raises IndexError.
lookup(df, kwargs) ==
    LET filtered == filter(df, kwargs) IN
    IF filtered.status # "returns"
    THEN [status |-> filtered.status, row |-> <<>>, kwargs |-> kwargs]
    ELSE IF filtered.idx = <<>>
    THEN [status |-> "IndexError", row |-> <<>>, kwargs |-> kwargs]
    ELSE [status |-> "row", row |-> df.rows[filtered.idx[1]],
          kwargs |-> kwargs]

StrategyInit ==
    /\ config \in [epochs_per_period : EpochsPerPeriod,
                   validation_problems : ValidationArgs]
    /\ dir_exists \in BOOLEAN
    /\ foreign = dir_exists
    /\ checkpoints = {}
    /\ csv = NoFile
    /\ constructed = FALSE
    /\ strategy = [problems |-> "None", validation_problems |-> "None",
                   epochs_per_period |-> 0]
    /\ summary = EmptyFrame
    /\ hooks = NoHooks
    /\ lp = [pc |-> "idle", training_loss |-> <<>>]
    /\ runs = <<>>
    /\ period = NoPeriod
    /\ base_rows = 0
    /\ appended = 0
    /\ prev_summary = EmptyFrame
    /\ last_row = NoRow
    /\ crash = NoCrash
    /\ found = NoLookup
    /\ replayed = NoReplay

\* _makedir(path, assert_empty), lines 19-27, for a directory that exists
\* or not: whether it raises, and whether the directory exists afterwards.
makedir(exists, assert_empty) ==
    IF exists
    THEN [raises |-> assert_empty, exists |-> TRUE]
    ELSE [raises |-> FALSE, exists |-> TRUE]

\* BaseStrategy.__init__, lines 96-124.  `resume` and `start` are what the
\* class's _resume and _start do if called.  pd.read_csv of a file without
\* a header line raises EmptyDataError, which __init__ does not catch.
\* Line 109 calls _makedir without assert_empty.
Construct(resume, start) ==
    /\ ~constructed
    /\ strategy' =
         [problems |-> deserialize_problems(TrainingProblems, "None"),
          validation_problems |->
             deserialize_problems(config.validation_problems,
                                  deserialize_problems(TrainingProblems, "None")),
          epochs_per_period |-> config.epochs_per_period]
    /\ LET made == makedir(dir_exists, FALSE)
           empty == csv.exists /\ csv.header = <<>>
           fresh == ~empty /\ (~csv.exists \/ resume = "FileNotFoundError")
           ok == IF made.raises \/ empty THEN FALSE
                 ELSE IF fresh THEN start = "returns"
                 ELSE resume = "returns"
       IN /\ dir_exists' = IF made.raises THEN dir_exists ELSE made.exists
          /\ hooks' = IF made.raises THEN NoHooks
                      ELSE [resume |-> IF csv.exists /\ ~empty THEN 1 ELSE 0,
                            start |-> IF fresh THEN 1 ELSE 0]
          /\ summary' = IF made.raises \/ empty THEN EmptyFrame
                        ELSE IF fresh
                        THEN fresh_summary(config.epochs_per_period)
                        ELSE read_csv(csv)
          /\ constructed' = ok
          /\ base_rows' = Len(summary'.rows)
    /\ appended' = 0
    /\ prev_summary' = EmptyFrame
    /\ last_row' = NoRow
    /\ lp' = [pc |-> "idle", training_loss |-> <<>>]
    /\ runs' = <<>>
    /\ period' = NoPeriod
    /\ crash' = NoCrash
    /\ found' = NoLookup
    /\ replayed' = IF constructed' /\ ~replayed.made
                   THEN [made |-> TRUE, summary |-> summary']
                   ELSE replayed
    /\ UNCHANGED <<config, foreign, checkpoints, csv>>

\* The process ends; the directory stays.
Restart ==
    /\ constructed
    /\ constructed' = FALSE
    /\ summary' = EmptyFrame
    /\ lp' = [pc |-> "idle", training_loss |-> <<>>]
    /\ runs' = <<>>
    /\ period' = NoPeriod
    /\ prev_summary' = EmptyFrame
    /\ last_row' = NoRow
    /\ hooks' = NoHooks
    /\ base_rows' = 0
    /\ appended' = 0
    /\ found' = NoLookup
    /\ UNCHANGED <<config, replayed, foreign, checkpoints, crash, dir_exists,
                   csv, strategy>>

\* The caller's TrainingPeriod and the history of its runs are dropped when
\* the period is appended or the next period starts.

\* _learning_period is called, line 218.
StartPeriod ==
    /\ constructed /\ lp.pc # "epochs"
    /\ lp' = [pc |-> "epochs", training_loss |-> <<>>]
    /\ runs' = <<>>
    /\ period' = NoPeriod
    /\ found' = NoLookup
    /\ UNCHANGED <<config, replayed, foreign, checkpoints, crash, dir_exists,
                   csv, constructed, strategy, summary, hooks, base_rows,
                   appended, prev_summary, last_row>>

\* _learning_period, lines 219-223: one meta-epoch of the training loop.
TrainingEpoch ==
    /\ constructed /\ lp.pc = "epochs"
    /\ Len(lp.training_loss) < strategy.epochs_per_period
    /\ \E out \in RunResults :
         /\ runs' = Append(runs, [problems |-> strategy.problems,
                                  validation |-> FALSE, out |-> out])
         /\ lp' = [lp EXCEPT !.training_loss = Append(@, np_mean(Floats(out)))]
    /\ found' = NoLookup
    /\ UNCHANGED <<config, replayed, foreign, checkpoints, crash, dir_exists,
                   csv, constructed, strategy, summary, hooks, period,
                   base_rows, appended, prev_summary, last_row>>

\* Mutant of ValidationRun: the last run repeats the training call.
ValidationRun_as_training ==
    /\ constructed /\ lp.pc = "epochs"
    /\ Len(lp.training_loss) >= strategy.epochs_per_period
    /\ \E out \in RunResults :
         /\ runs' = Append(runs, [problems |-> strategy.problems,
                                  validation |-> FALSE, out |-> out])
         /\ period' = TrainingPeriod(np_mean(lp.training_loss),
                                     lp.training_loss, np_mean(Floats(out)))
    /\ lp' = [lp EXCEPT !.pc = "returned"]
    /\ found' = NoLookup
    /\ UNCHANGED <<config, replayed, foreign, checkpoints, crash, dir_exists,
                   csv, constructed, strategy, summary, hooks, base_rows,
                   appended, prev_summary, last_row>>

\* _learning_period, lines 224-234: the mean of the training losses, the
\* validation run, and the TrainingPeriod returned.
ValidationRun ==
    /\ constructed /\ lp.pc = "epochs"
    /\ Len(lp.training_loss) >= strategy.epochs_per_period
    /\ \E out \in ValidationResults :
         /\ runs' = Append(runs, [problems |-> strategy.validation_problems,
                                  validation |-> TRUE, out |-> out])
         /\ period' = TrainingPeriod(np_mean(lp.training_loss),
                                     lp.training_loss, np_mean(Floats(out)))
    /\ lp' = [lp EXCEPT !.pc = "returned"]
    /\ found' = NoLookup
    /\ UNCHANGED <<config, replayed, foreign, checkpoints, crash, dir_exists,
                   csv, constructed, strategy, summary, hooks, base_rows,
                   appended, prev_summary, last_row>>

\* Mutant of PeriodRaise: a checkpoint is written on the way out.
PeriodRaise_saving ==
    /\ constructed /\ lp.pc = "epochs"
    /\ lp' = [pc |-> "raised", training_loss |-> <<>>]
    /\ runs' = <<>>
    /\ found' = NoLookup
    /\ checkpoints' = checkpoints \cup {<<0>>}
    /\ UNCHANGED <<config, replayed, foreign, crash, dir_exists, csv,
                   constructed, strategy, summary, hooks, period, base_rows,
                   appended, prev_summary, last_row>>

\* A training or validation run raises; the error leaves _learning_period.
PeriodRaise ==
    /\ constructed /\ lp.pc = "epochs"
    /\ lp' = [pc |-> "raised", training_loss |-> <<>>]
    /\ runs' = <<>>
    /\ found' = NoLookup
    /\ UNCHANGED <<config, replayed, foreign, checkpoints, crash, dir_exists,
                   csv, constructed, strategy, summary, hooks, period,
                   base_rows, appended, prev_summary, last_row>>

\* _append(results, **kwargs), lines 144-156, with the period returned last.
AppendRow(kwargs) ==
    /\ constructed /\ lp.pc = "returned"
    /\ Len(summary.rows) < MaxRows
    /\ last_row' = new_row(period, kwargs)
    /\ prev_summary' = summary
    /\ summary' = df_append(summary, last_row')
    /\ csv' = to_csv(summary')
    /\ appended' = appended + 1
    /\ lp' = [pc |-> "idle", training_loss |-> <<>>]
    /\ runs' = <<>>
    /\ period' = NoPeriod
    /\ found' = NoLookup
    /\ replayed' = NoReplay
    /\ UNCHANGED <<config, foreign, checkpoints, crash, dir_exists,
                   constructed, strategy, hooks, base_rows>>

\* The process dies inside _append(results, **kwargs), lines 144-156: before
\* to_csv opens the file, or while to_csv is writing it.
CrashInAppend(kwargs) ==
    /\ constructed /\ lp.pc = "returned"
    /\ Len(summary.rows) < MaxRows
    /\ LET new == to_csv(df_append(summary, new_row(period, kwargs)))
       IN /\ csv' \in {csv} \cup Truncations(new)
          /\ crash' = [at |-> "append", before |-> csv,
                       line |-> new.lines[Len(new.lines)]]
    /\ constructed' = FALSE
    /\ summary' = EmptyFrame
    /\ lp' = [pc |-> "idle", training_loss |-> <<>>]
    /\ runs' = <<>>
    /\ period' = NoPeriod
    /\ prev_summary' = EmptyFrame
    /\ last_row' = NoRow
    /\ hooks' = NoHooks
    /\ base_rows' = 0
    /\ appended' = 0
    /\ found' = NoLookup
    /\ replayed' = NoReplay
    /\ UNCHANGED <<config, foreign, checkpoints, dir_exists, strategy>>

\* _lookup(**kwargs) called between two periods.
Lookup(kwargs) ==
    /\ constructed /\ lp.pc = "idle"
    /\ found' = lookup(summary, kwargs)
    /\ UNCHANGED <<config, replayed, foreign, checkpoints, crash, dir_exists,
                   csv, constructed, strategy, summary, hooks, lp, runs,
                   period, base_rows, appended, prev_summary, last_row>>

\* _save_network(*args), lines 182-187, called between two periods or with
\* the period just returned: the directory of the path is made if it is
\* missing and the learner is saved at the path.
SaveNetwork(args) ==
    /\ constructed /\ lp.pc \in {"idle", "returned"}
    /\ ~makedir(dir_exists, FALSE).raises
    /\ checkpoints' = checkpoints \cup {args}
    /\ found' = NoLookup
    /\ UNCHANGED <<config, replayed, foreign, crash, dir_exists, csv,
                   constructed, strategy, summary, hooks, lp, runs, period,
                   base_rows, appended, prev_summary, last_row>>

StrategyNext ==
    \/ \E resume \in HookOutcomes, start \in HookOutcomes \ {"FileNotFoundError"} :
         Construct(resume, start) /\ UNCHANGED <<step_vars, ptb_vars, imitation_vars>>
    \/ Restart /\ UNCHANGED <<step_vars, ptb_vars, imitation_vars>>
    \/ StartPeriod /\ UNCHANGED <<step_vars, ptb_vars, imitation_vars>>
    \/ TrainingEpoch /\ UNCHANGED <<step_vars, ptb_vars, imitation_vars>>
    \/ ValidationRun /\ UNCHANGED <<step_vars, ptb_vars, imitation_vars>>
    \/ PeriodRaise /\ UNCHANGED <<step_vars, ptb_vars, imitation_vars>>
    \/ \E kwargs \in Kwargs : AppendRow(kwargs) /\ UNCHANGED <<step_vars, ptb_vars, imitation_vars>>
    \/ \E kwargs \in Kwargs : CrashInAppend(kwargs) /\ UNCHANGED <<step_vars, ptb_vars, imitation_vars>>
    \/ \E kwargs \in LookupKwargs : Lookup(kwargs) /\ UNCHANGED <<step_vars, ptb_vars, imitation_vars>>
    \/ \E args \in PathArgs : SaveNetwork(args) /\ UNCHANGED <<step_vars, ptb_vars, imitation_vars>>

(***************************************************************************)
(* optimizer/imitation_mixins.py                                           *)
(*                                                                         *)
(* A parameter set is a sequence of two one-component variables.  Losses   *)
(* are exact rationals, extended by the infinities and NaN of floating     *)
(* point: [num |-> 1, den |-> 0], [num |-> -1, den |-> 0] and NaN.         *)
(***************************************************************************)
PosInf == [num |-> 1, den |-> 0]
NegInf == [num |-> -1, den |-> 0]

\* Floating-point product and sum, exact on finite values.
FMul(a, b) ==
    IF a = NaN \/ b = NaN THEN NaN
    ELSE IF a.den > 0 /\ b.den > 0 THEN Rat(a.num * b.num, a.den * b.den)
    ELSE IF a.num = 0 \/ b.num = 0 THEN NaN
    ELSE [num |-> sign(a.num) * sign(b.num), den |-> 0]

FAdd(a, b) ==
    IF a = NaN \/ b = NaN THEN NaN
    ELSE IF a.den > 0 /\ b.den > 0 THEN RatAdd(a, b)
    ELSE IF a.den = 0 /\ b.den = 0 /\ a # b THEN NaN
    ELSE IF a.den = 0 THEN a
    ELSE b

RECURSIVE Log2Floor(_)
Log2Floor(n) == IF n < 2 THEN 0 ELSE 1 + Log2Floor(n \div 2)

\* tf.math.log of a distance x >= 0, to the precision of the model: minus
\* infinity at 0, else the difference of the whole base-2 logarithms of
\* numerator and denominator (0 at 1, growing with x).
log(x) ==
    IF x.num = 0 THEN NegInf
    ELSE Rat(Log2Floor(x.num) - Log2Floor(x.den), 1)

\* Mutant of l2_loss: the sum of squares is not halved.
l2_loss_whole(t) == Rat(t * t, 1)

\* tf.nn.l2_loss(t) of a one-component tensor: sum(t ** 2) / 2.
l2_loss(t) == Rat(t * t, 2)

\* tf.add_n
add_n(s) == RatSum(s)

\* zip(a, b): the pairs up to the shorter of the two.
zip(a, b) ==
    [j \in 1..(IF Len(a) < Len(b) THEN Len(a) ELSE Len(b)) |-> <<a[j], b[j]>>]

\* Lines 74-77: the loss for one teacher, l2 between the parameters.
teacher_loss(params, var_set) ==
    LET pairs == zip(params, var_set)
    IN add_n([j \in DOMAIN pairs |-> l2_loss(pairs[j][1] - pairs[j][2])])

RatLess(a, b) == a.num * b.den < b.num * a.den

RECURSIVE reduce_max(_)
reduce_max(s) ==
    IF Len(s) = 1 THEN s[1]
    ELSE LET m == reduce_max(Tail(s))
         IN IF RatLess(Head(s), m) THEN m ELSE Head(s)

\* The strategy argument: tf.math.reduce_mean or tf.math.reduce_max.
Strategies == {"reduce_mean", "reduce_max"}

loss_strategy(name, s) ==
    IF name = "reduce_mean" THEN np_mean(s) ELSE reduce_max(s)

\* Lines 73-80: d_loss of one iteration.
d_loss(im, params, variables) ==
    LET d == loss_strategy(im.strategy,
                [k \in DOMAIN variables |-> teacher_loss(params, variables[k])])
    IN IF im.use_log_objective THEN log(d) ELSE d

\* The weights argument for an unroll of L iterations: the first step only,
\* rising weights, or the last step only.
WeightVectors(L) ==
    {[i \in 1..L |-> IF i = 1 THEN 1 ELSE 0],
     [i \in 1..L |-> i],
     [i \in 1..L |-> IF i = L THEN 1 ELSE 0]}

\* What one update of the learner, and one minimize of a teacher, can leave
\* in a parameter set.
LearnerUpdates == {<<0, 0>>, <<1, 2>>}
TeacherUpdates == {<<0, 0>>, <<1, 0>>}

InitialParameters == <<0, 0>>

\* The state at line 57, for every choice of the arguments.
ImitationInit ==
    /\ \E L \in 1..MaxUnroll, t \in 1..MaxTeachers, g \in 1..MaxTeachers :
         \E w \in WeightVectors(L), st \in Strategies, lg \in BOOLEAN :
            imitation = [unroll |-> L, weights |-> w, teachers |-> t,
                         strategy |-> st, use_log_objective |-> lg]
            /\ teacher_variables = [k \in 1..g |-> InitialParameters]
    /\ unroll_params = InitialParameters
    /\ unroll_i = 0
    /\ loss = Rat(0, 1)
    /\ returned = FALSE
    /\ measured = <<>>

\* Mutant of Iterate: d_loss is taken before the teachers are run.
Iterate_before_teachers ==
    /\ ~returned /\ unroll_i < imitation.unroll
    /\ \E p \in LearnerUpdates :
       \E t \in [1..Len(zip([k \in 1..imitation.teachers |-> k],
                            teacher_variables)) -> TeacherUpdates] :
         /\ unroll_params' = p
         /\ teacher_variables' =
              [k \in DOMAIN teacher_variables |->
                 IF k \in DOMAIN t THEN t[k] ELSE teacher_variables[k]]
         /\ loss' = FAdd(loss,
                         FMul(Rat(imitation.weights[unroll_i + 1], 1),
                              d_loss(imitation, p, teacher_variables)))
         /\ measured' = Append(measured,
                               [params |-> p, variables |-> teacher_variables'])
    /\ unroll_i' = unroll_i + 1
    /\ UNCHANGED <<imitation, returned>>

\* One iteration of the loop, lines 58-81: the learner is run, the teachers
\* are run on their variable sets (as many as zip pairs), d_loss is taken
\* and weights[i] * d_loss is added to loss.
Iterate ==
    /\ ~returned /\ unroll_i < imitation.unroll
    /\ \E p \in LearnerUpdates :
       \E t \in [1..Len(zip([k \in 1..imitation.teachers |-> k],
                            teacher_variables)) -> TeacherUpdates] :
         /\ unroll_params' = p
         /\ teacher_variables' =
              [k \in DOMAIN teacher_variables |->
                 IF k \in DOMAIN t THEN t[k] ELSE teacher_variables[k]]
         /\ loss' = FAdd(loss,
                         FMul(Rat(imitation.weights[unroll_i + 1], 1),
                              d_loss(imitation, p, teacher_variables')))
         /\ measured' = Append(measured,
                               [params |-> p, variables |-> teacher_variables'])
    /\ unroll_i' = unroll_i + 1
    /\ UNCHANGED <<imitation, returned>>

\* Line 83: the loop is over and loss is returned.
Return ==
    /\ ~returned /\ unroll_i = imitation.unroll
    /\ returned' = TRUE
    /\ UNCHANGED <<imitation, unroll_params, teacher_variables, unroll_i,
                   loss, measured>>

ImitationNext ==
    \/ Iterate /\ UNCHANGED <<step_vars, ptb_vars, strategy_vars>>
    \/ Return /\ UNCHANGED <<step_vars, ptb_vars, strategy_vars>>

(***************************************************************************)
(* Properties of the step executor.                                        *)
(***************************************************************************)
Zero(v) == \A i \in DOMAIN v : v[i] = 0

IsPrefix(s, t) == Len(s) <= Len(t) /\ \A i \in 1..Len(s) : s[i] = t[i]

Later == {"clip", "apply", "reset2", "done"}

\* The stages of _inner as the code orders them, with k adversarial rounds.
CodeOrder(k) ==
    <<"reset">> \o [i \in 1..k |-> "round"]
                \o <<"grad", "clip", "apply", "reset">>

\* C1: in a training step every perturbable variable is zero right before
\* the first adversarial round and zero again when the replica body returns,
\* so it is zero after every training step that returned.
C1_ZeroAroundStep ==
    \A r \in Replicas :
       /\ (step = "train" /\ outcome.status = "running" /\ pc[r] = "loop"
             /\ rounds[r] = 0) => Zero(perturbable_variables[r])
       /\ (step = "train" /\ outcome.status = "running" /\ pc[r] = "done")
             => Zero(perturbable_variables[r])
       /\ (step = "train" /\ outcome.status = "returned")
             => Zero(perturbable_variables[r])

\* A second training step is about to return; its weight gradient was taken
\* under a non-zero perturbation, which the final reset has cleared.
C1_Witness ==
    /\ step = "train" /\ outcome.status = "running" /\ calls = 2
    /\ \A r \in Replicas : pc[r] = "done"
    /\ ~Zero(loss_at[1]) /\ Zero(perturbable_variables[1])

\* C2 as claimed: with at least one adversarial round, the perturbation is
\* reset between the sub-loop and the weight-gradient computation, so that
\* gradient is taken at zero perturbation and follows a reset.
C2_ResetBeforeGradient ==
    \A r \in Replicas :
       (step = "train" /\ outcome.status = "running"
          /\ perturbation.steps >= 1 /\ pc[r] \in Later)
       => /\ Zero(loss_at[r])
          /\ \E i \in 2..Len(trace[r]) :
                trace[r][i] = "grad" /\ trace[r][i - 1] = "reset"

\* C2 as amended: with at least one adversarial round the stages run in the
\* order reset, sub-loop, weight gradient, clipping, outer update, reset, none
\* skipped or reordered; nothing resets the perturbation between the sub-loop
\* and the weight gradient, which is taken under the perturbation the
\* sub-loop left, kept until the final reset.
C2_StageOrder ==
    \A r \in Replicas :
       (step = "train" /\ perturbation.steps >= 1)
       => /\ IsPrefix(trace[r], CodeOrder(perturbation.steps))
          /\ pc[r] = "done" => trace[r] = CodeOrder(perturbation.steps)
          /\ (outcome.status = "running" /\ pc[r] \in {"clip", "apply", "reset2"})
               => loss_at[r] = perturbable_variables[r]

\* Both replicas have run the whole body with two rounds, and the weight
\* gradient of the second was taken under a non-zero perturbation.
C2_Witness ==
    /\ step = "train" /\ outcome.status = "running" /\ num_replicas = 2
    /\ perturbation.steps = 2
    /\ \A r \in Replicas : pc[r] = "done" /\ trace[r] = CodeOrder(2)
    /\ ~Zero(loss_at[2])

\* C3: the sub-loop runs exactly adversarial_attack_steps rounds (none for
\* Base and Random), and the weights keep their step-entry value until the
\* outer update, which happens once.
C3_RoundsAndWeights ==
    /\ \A r \in Replicas :
         (step = "train" /\ outcome.status = "running")
         => /\ pc[r] \in {"reset", "loop"} => rounds[r] <= perturbation.steps
            /\ pc[r] \in Later => rounds[r] = perturbation.steps
            /\ perturbation.cls \in {"Base", "Random"} => rounds[r] = 0
            /\ Cardinality({i \in DOMAIN trace[r] : trace[r][i] = "round"})
                 = rounds[r]
            /\ Cardinality({i \in DOMAIN trace[r] : trace[r][i] = "apply"}) <= 1
    /\ (step = "train" /\ outcome.status = "running"
          /\ \A r \in Replicas : "apply" \notin Range(trace[r]))
       => trainable_variables = entry_weights

\* Two rounds have perturbed replica 1, and the weights still have the value
\* an earlier training step left.
C3_Witness ==
    /\ step = "train" /\ outcome.status = "running"
    /\ perturbation.steps = 2 /\ pc[1] = "clip" /\ rounds[1] = 2
    /\ ~Zero(perturbable_variables[1])
    /\ entry_weights # 0 /\ trainable_variables = entry_weights

\* C4: a step built from a descriptor with validation=True is the validation
\* step; it only computes the loss, and leaves the weights and every
\* perturbation variable as they were; only a training step changes weights.
C4_ValidationFrame ==
    /\ (validation /\ outcome.status # "none")
       => /\ step = "valid"
          /\ trainable_variables = entry_weights
          /\ perturbable_variables = entry_perturbable
          /\ \A r \in Replicas : trace[r] \in {<<>>, <<"loss">>}
    /\ trainable_variables # entry_weights => (step = "train" /\ ~validation)

\* A validation step returned after a training step had changed the weights.
C4_Witness ==
    /\ validation /\ outcome.status = "returned"
    /\ entry_weights # 0

\* C5: the summary reports the arithmetic mean over the replicas of the
\* per-replica meta and imitation losses; 2.0 and 4.0 give 3.0.
C5_MeanNotSum ==
    outcome.status = "returned"
    => /\ outcome.meta_loss.num * num_replicas =
            ReplicaSum([r \in Replicas |-> results[r].meta_loss], num_replicas)
              * outcome.meta_loss.den
       /\ outcome.imitation_loss.num * num_replicas =
            ReplicaSum([r \in Replicas |-> results[r].imitation_loss],
                       num_replicas) * outcome.imitation_loss.den
       /\ (num_replicas = 2 /\ results[1].meta_loss = 2
             /\ results[2].meta_loss = 4)
            => outcome.meta_loss = [num |-> 3, den |-> 1]

\* Two replicas reported meta losses 2 and 4 and imitation losses 1 and 4.
C5_Witness ==
    /\ outcome.status = "returned" /\ num_replicas = 2
    /\ results[1] = [meta_loss |-> 2, imitation_loss |-> 1]
    /\ results[2] = [meta_loss |-> 4, imitation_loss |-> 4]
    /\ outcome.meta_loss = [num |-> 3, den |-> 1]
    /\ outcome.imitation_loss = [num |-> 5, den |-> 2]

\* C6: a summary exists only once every replica has run its whole body (for
\* training up to the final reset) and produced its results in this step.
C6_Synchronous ==
    outcome.status = "returned"
    => \A r \in Replicas :
          /\ pc[r] = "done"
          /\ results[r] \in Results
          /\ trace[r] = IF step = "train"
                        THEN CodeOrder(perturbation.steps) ELSE <<"loss">>

\* A training step on two replicas has returned its summary.
C6_Witness ==
    /\ outcome.status = "returned" /\ step = "train" /\ num_replicas = 2
    /\ \A r \in Replicas : pc[r] = "done"

C8_ResetIdempotent ==
    (ptb.cls \in {"FGSM", "PGD"} /\ resets >= 1)
    => /\ Zero(noise)
       /\ noise = zeros_like(before_reset)

\* Two resets in a row after apply_gradients calls had left non-zero noise.
C8_Witness ==
    /\ ptb.cls \in {"FGSM", "PGD"} /\ resets = 2
    /\ ~Zero(before_reset) /\ Zero(noise)

(***************************************************************************)
(* Properties of the strategy and its ledger.                              *)
(***************************************************************************)
RECURSIVE DenProduct(_)
DenProduct(s) == IF s = <<>> THEN 1 ELSE Head(s).den * DenProduct(Tail(s))

RECURSIVE ScaledSum(_, _)
ScaledSum(s, d) ==
    IF s = <<>> THEN 0
    ELSE Head(s).num * (d \div Head(s).den) + ScaledSum(Tail(s), d)

\* m is the arithmetic mean of the rationals of the non-empty sequence s.
IsMeanOf(m, s) ==
    LET d == DenProduct(s) IN
    m.den > 0 /\ m.num * Len(s) * d = m.den * ScaledSum(s, d)

One == [num |-> 1, den |-> 1]

\* C9: one _learning_period issues epochs_per_period training runs on the
\* training problems and then one validation run on the validation problems
\* (the training problems when validation_problems is None); training_loss
\* has one entry per epoch, in epoch order, training_loss_mean is their mean;
\* a constant objective 1.0 with two epochs gives 1.0, [1.0, 1.0] and 1.0.
C9_LearningPeriod ==
    LET e == config.epochs_per_period IN
    /\ (constructed /\ lp.pc = "epochs")
       => /\ Len(runs) = Len(lp.training_loss) /\ Len(runs) <= e
          /\ \A i \in DOMAIN runs :
                ~runs[i].validation /\ runs[i].problems = TrainingProblems
    /\ (constructed /\ lp.pc = "returned")
       => /\ Len(runs) = e + 1
          /\ \A i \in 1..e :
                /\ ~runs[i].validation /\ runs[i].problems = TrainingProblems
                /\ IsMeanOf(period.training_loss[i], Floats(runs[i].out))
          /\ runs[e + 1].validation
          /\ runs[e + 1].problems =
                IF config.validation_problems = "None" THEN TrainingProblems
                ELSE config.validation_problems
          /\ Len(period.training_loss) = e
          /\ IsMeanOf(period.training_loss_mean, period.training_loss)
          /\ IsMeanOf(period.validation_loss, Floats(runs[e + 1].out))
          /\ (e = 2 /\ \A i \in 1..3 : runs[i].out = <<1>>)
               => period = TrainingPeriod(One, <<One, One>>, One)

\* A period of two epochs on a constant objective 1.0 has returned, with its
\* validation run on a separate validation set.
C9_Witness ==
    /\ constructed /\ lp.pc = "returned" /\ config.epochs_per_period = 2
    /\ config.validation_problems = "V" /\ runs[3].problems = "V"
    /\ \A i \in 1..3 : runs[i].out = <<1>>
    /\ period = TrainingPeriod(One, <<One, One>>, One)

\* A period whose training losses 1.0 and 1.5 have the mean 1.25.
C9_WitnessMean ==
    /\ constructed /\ lp.pc = "returned"
    /\ period.training_loss = <<One, [num |-> 3, den |-> 2]>>
    /\ period.training_loss_mean = [num |-> 5, den |-> 4]

\* C10: each _append adds exactly one row at the end of the ledger and
\* leaves the earlier rows as they were and in order; when it returns,
\* summary.csv holds exactly the rows of the in-memory summary; n appends on
\* a ledger of K rows give K + n rows.
C10_AppendOnly ==
    constructed
    => /\ Len(summary.rows) = base_rows + appended
       /\ appended >= 1
          => /\ Len(summary.rows) = Len(prev_summary.rows) + 1
             /\ \A i \in DOMAIN prev_summary.rows :
                   \A c \in DOMAIN prev_summary.rows[i] :
                      summary.rows[i][c] = prev_summary.rows[i][c]
             /\ \A c \in Range(last_row.keys) :
                   summary.rows[Len(summary.rows)][c] = last_row.val[c]
             /\ csv.exists
             /\ csv.header = summary.columns
             /\ Len(csv.lines) = Len(summary.rows)
             /\ \A i \in DOMAIN summary.rows :
                   /\ Len(csv.lines[i]) = Len(summary.columns)
                   /\ \A j \in DOMAIN summary.columns :
                         csv.lines[i][j] =
                            Cell(summary.rows[i][summary.columns[j]])

\* A strategy that resumed a ledger of one row has appended a second row.
C10_Witness ==
    /\ constructed /\ base_rows = 1 /\ appended = 1
    /\ Len(summary.rows) = 2 /\ Len(csv.lines) = 2
    /\ summary.rows[1] # summary.rows[2]

\* C11: _append is atomic with respect to a process crash: after the process
\* dies inside _append, summary.csv holds either exactly the rows it had
\* before the call or those rows and the new one; never fewer rows, never a
\* partial row.
C11_AppendAtomic ==
    crash.at = "append"
    => \/ csv.lines = crash.before.lines
       \/ csv.lines = Append(crash.before.lines, crash.line)

\* A process died inside _append and summary.csv, which had a row before
\* the call, has no row left.
C11_Witness ==
    /\ crash.at = "append"
    /\ Len(crash.before.lines) >= 1
    /\ csv.exists /\ csv.lines = <<>>

\* A process died inside _append and the last row of summary.csv is cut short.
C11_WitnessPartial ==
    /\ crash.at = "append"
    /\ csv.lines # <<>>
    /\ Len(csv.lines[Len(csv.lines)]) < Len(csv.header)

\* The rows of df in which every column named by kwargs holds the value
\* given for it.
Matching(df, kwargs) ==
    {i \in DOMAIN df.rows :
        \A k \in Range(kwargs.keys) :
           /\ k \in Range(df.columns)
           /\ df.rows[i][k] # NaN
           /\ df.rows[i][k] = kwargs.val[k]}

SetMax(S) == CHOOSE x \in S : \A y \in S : y <= x

SetMin(S) == CHOOSE x \in S : \A y \in S : x <= y

\* C12: when several rows of the ledger match the predicate given to _lookup,
\* _lookup returns the one that was appended last.
C12_LookupMostRecent ==
    (found.status # "none"
       /\ Cardinality(Matching(summary, found.kwargs)) >= 2)
    => /\ found.status = "row"
       /\ found.row = summary.rows[SetMax(Matching(summary, found.kwargs))]

\* _lookup returned the oldest of two different matching rows.
C12_Witness ==
    LET m == Matching(summary, found.kwargs) IN
    /\ found.status = "row"
    /\ Cardinality(m) >= 2
    /\ summary.rows[SetMin(m)] # summary.rows[SetMax(m)]
    /\ found.row = summary.rows[SetMin(m)]

\* C13: when no row of the ledger matches the predicate, the ledger without
\* rows included, _lookup returns None and does not raise.
C13_LookupAbsent ==
    (found.status # "none" /\ Matching(summary, found.kwargs) = {})
    => found.status = "None"

\* _lookup raised IndexError on a ledger with rows, none of them matching.
C13_Witness ==
    /\ found.status = "IndexError"
    /\ summary.rows # <<>>
    /\ Matching(summary, found.kwargs) = {}

\* _lookup raised on a ledger without rows.
C13_WitnessEmpty ==
    /\ found.status \in {"IndexError", "KeyError"}
    /\ summary.rows = <<>>

\* C14: constructing a strategy on a directory without summary.csv takes the
\* fresh-start path: _start is called exactly once and _resume never, the
\* in-memory ledger has no rows and the columns training_loss_mean,
\* validation_loss, COLUMNS, training_loss_0 .. training_loss_{e-1}, and no
\* ledger file exists until the first _append.
C14_FreshStart ==
    /\ (hooks # NoHooks /\ ~csv.exists)
       => hooks = [start |-> 1, resume |-> 0]
    /\ (constructed /\ hooks.resume = 0 /\ appended = 0)
       => /\ ~csv.exists
          /\ hooks.start = 1
          /\ summary.rows = <<>>
          /\ summary.columns =
               <<"training_loss_mean", "validation_loss">> \o COLUMNS
               \o SubSeq(<<"training_loss_0", "training_loss_1">>, 1,
                         config.epochs_per_period)
    /\ (constructed /\ hooks.resume = 0 /\ appended >= 1) => csv.exists

\* A strategy of two epochs per period has been constructed on a directory
\* without summary.csv and has not appended yet.
C14_Witness ==
    /\ constructed /\ hooks = [start |-> 1, resume |-> 0]
    /\ appended = 0 /\ ~csv.exists /\ dir_exists
    /\ config.epochs_per_period = 2
    /\ Len(summary.columns) = 4 /\ summary.rows = <<>>

\* C15: whenever summary.csv exists at construction the strategy takes the
\* resume path only (_start is never called) and the in-memory ledger holds
\* every row of the file, whatever _resume does; and no later _append writes
\* a summary.csv that lacks rows the file had.
C15_LedgerAuthoritative ==
    /\ [](hooks.resume = 1
          => /\ hooks.start = 0
             /\ (constructed /\ appended = 0)
                => summary.rows = read_csv(csv).rows)
    /\ [][(constructed /\ csv.exists /\ appended' = appended + 1)
          => IsPrefix(read_csv(csv).rows, read_csv(csv').rows)]_vars

\* _resume raised FileNotFoundError: the strategy is constructed on the
\* fresh-start path with an empty ledger although summary.csv holds a row.
C15_Witness ==
    /\ constructed /\ hooks = [start |-> 1, resume |-> 1]
    /\ appended = 0
    /\ csv.exists /\ csv.lines # <<>>
    /\ summary.rows = <<>>

\* After such a construction one _append has been made, and summary.csv
\* holds that one row only.
C15_WitnessOverwritten ==
    /\ constructed /\ hooks = [start |-> 1, resume |-> 1]
    /\ base_rows = 0 /\ appended = 1
    /\ Len(csv.lines) = 1

\* C16: constructing a strategy that would start fresh in an existing
\* directory holding files no strategy wrote fails with a directory-conflict
\* error: no strategy is constructed there, _start is not called and no file
\* is written in that directory.
C16_DirectoryConflict ==
    foreign
    => /\ ~constructed
       /\ hooks.start = 0
       /\ ~csv.exists
       /\ checkpoints = {}

\* A strategy has been constructed on the fresh-start path in a directory
\* holding foreign files, and has written its ledger there.
C16_Witness ==
    /\ foreign /\ constructed
    /\ hooks = [start |-> 1, resume |-> 0]
    /\ csv.exists /\ csv.lines # <<>>

\* C17: ledger replay is idempotent: every construction against the same
\* summary.csv, with no append in between, gives the same in-memory ledger,
\* and construction never writes or modifies summary.csv.
C17_ReplayIdempotent ==
    /\ []((constructed /\ appended = 0 /\ replayed.made)
          => summary = replayed.summary)
    /\ [][~constructed => csv' = csv]_vars

\* Two constructions against the same summary.csv of one row: the first
\* held the row, the second holds no row.
C17_Witness ==
    /\ constructed /\ appended = 0
    /\ Len(csv.lines) = 1
    /\ replayed.made /\ Len(replayed.summary.rows) = 1
    /\ summary.rows = <<>>

\* What holds of a replay: on the resume path the in-memory ledger is the
\* rows of the file in file order, on the fresh-start path it has no rows,
\* and construction leaves summary.csv and the checkpoints as they are.
ReplayGivenHooks ==
    /\ [](((constructed /\ appended = 0 /\ hooks.start = 0)
           => /\ csv.exists
              /\ summary.columns = csv.header
              /\ Len(summary.rows) = Len(csv.lines)
              /\ \A i \in DOMAIN csv.lines : \A j \in DOMAIN csv.header :
                    summary.rows[i][csv.header[j]] =
                       IF j <= Len(csv.lines[i]) /\ csv.lines[i][j] # <<>>
                       THEN csv.lines[i][j][1]
                       ELSE NaN)
          /\ ((constructed /\ appended = 0 /\ hooks.start = 1)
              => summary.rows = <<>>))
    /\ [][~constructed => (csv' = csv /\ checkpoints' = checkpoints)]_vars

\* C18: when a training run or the validation run of _learning_period
\* raises, the error reaches the caller, no TrainingPeriod is returned, and
\* the period leaves no trace in the working directory: from the call of
\* _learning_period until the error has left it, no row is appended to the
\* ledger in memory or in summary.csv and no checkpoint is written, so a
\* later construction reads the ledger of the last completed period.
C18_FailedPeriod ==
    /\ [](lp.pc = "raised" => (period = NoPeriod /\ runs = <<>>))
    /\ [][lp.pc = "epochs"
          => /\ csv' = csv
             /\ checkpoints' = checkpoints
             /\ appended' <= appended
             /\ constructed' => summary' = summary]_vars

\* A run of a period has raised in a strategy whose ledger holds a row of
\* an earlier period and whose directory holds a checkpoint.
C18_Witness ==
    /\ constructed /\ lp.pc = "raised"
    /\ period = NoPeriod
    /\ Len(summary.rows) = 1 /\ Len(csv.lines) = 1
    /\ checkpoints = {<<0>>}

(***************************************************************************)
(* Properties of imitation_loss.                                           *)
(***************************************************************************)
\* The sum of the squared differences of two parameter sets.
SqDist(p, v) == (p[1] - v[1]) * (p[1] - v[1]) + (p[2] - v[2]) * (p[2] - v[2])

\* The combined teacher distance of the parameter sets m measured in one
\* iteration: the mean or the maximum over the variable sets of half the sum
\* of squared differences.
Combined(m) ==
    LET n == Len(m.variables)
        S[k \in 0..n] ==
            IF k = 0 THEN 0 ELSE S[k - 1] + SqDist(m.params, m.variables[k])
    IN IF imitation.strategy = "reduce_mean" THEN Rat(S[n], 2 * n)
       ELSE Rat(SetMax({SqDist(m.params, m.variables[k]) : k \in 1..n}), 2)

\* C19 as stated: the loss returned is the sum over the steps, in increasing
\* order, of weights[i] times the combined teacher distance of step i.
C19_WeightedSum ==
    returned
    => LET E[k \in 0..imitation.unroll] ==
              IF k = 0 THEN Rat(0, 1)
              ELSE RatAdd(E[k - 1],
                          LET d == Combined(measured[k])
                          IN Rat(imitation.weights[k] * d.num, d.den))
       IN loss = E[imitation.unroll]

\* C19: after i iterations loss is the sum, accumulated in increasing step
\* order, of weights[k] times the combined teacher distance of step k, the
\* distance being taken after the learner's and the teachers' k-th update
\* and replaced by its logarithm when use_log_objective is set; each step up
\* to i is counted once, with its own weight, and the call returns after
\* exactly unroll iterations.
C19_WeightedSumOrLog ==
    /\ Len(measured) = unroll_i
    /\ unroll_i <= imitation.unroll
    /\ returned => unroll_i = imitation.unroll
    /\ \A k \in DOMAIN measured :
          /\ measured[k].params \in LearnerUpdates
          /\ k = unroll_i
             => /\ measured[k].params = unroll_params
                /\ measured[k].variables = teacher_variables
    /\ LET E[k \in 0..unroll_i] ==
              IF k = 0 THEN Rat(0, 1)
              ELSE FAdd(E[k - 1],
                        FMul(Rat(imitation.weights[k], 1),
                             IF imitation.use_log_objective
                             THEN log(Combined(measured[k]))
                             ELSE Combined(measured[k])))
       IN loss = E[unroll_i]

\* A call with two teachers, the weights <<1, 2>> and the maximum as the
\* policy has returned; the combined distances of its two steps differ.
C19_Witness ==
    /\ returned /\ imitation.unroll = 2 /\ imitation.weights = <<1, 2>>
    /\ imitation.teachers = 2 /\ Len(teacher_variables) = 2
    /\ imitation.strategy = "reduce_max" /\ ~imitation.use_log_objective
    /\ Combined(measured[1]) = Rat(1, 2)
    /\ Combined(measured[2]) = Rat(5, 2)
    /\ loss = Rat(11, 2)

\* A call with use_log_objective set has returned a loss that is not the
\* weighted sum of the distances themselves.
C19_WitnessLog ==
    /\ returned /\ imitation.use_log_objective
    /\ imitation.unroll = 2 /\ imitation.weights = <<1, 2>>
    /\ Combined(measured[1]) = Rat(2, 1)
    /\ Combined(measured[2]) = Rat(5, 2)
    /\ loss = Rat(3, 1)

\* The case of C20: one teacher on the problem's one variable set, the
\* weights <<1, 0, ..., 0>>, no log transform, at least one step done.
SingleTeacherFirstStep ==
    /\ imitation.teachers = 1 /\ Len(teacher_variables) = 1
    /\ imitation.weights =
          [i \in 1..imitation.unroll |-> IF i = 1 THEN 1 ELSE 0]
    /\ ~imitation.use_log_objective
    /\ unroll_i >= 1

\* C20 as stated: with a single teacher, the weights <<1, 0, ..., 0>> and no
\* log transform, the loss is the sum of the squared differences between the
\* learner's and the teacher's parameters after the first step.
C20_SingleStepDistance ==
    (SingleTeacherFirstStep /\ returned)
    => loss = Rat(SqDist(measured[1].params, measured[1].variables[1]), 1)

\* C20: in that case the loss is half the sum of the squared differences
\* between the learner's and the teacher's parameters after the first step,
\* from the first step on and whatever the later steps measure.
C20_HalfSingleStepDistance ==
    SingleTeacherFirstStep
    => loss = Rat(SqDist(measured[1].params, measured[1].variables[1]), 2)

\* Such a call of two steps has returned: the squared differences of the
\* first step sum to 5, those of the second to 1, and the loss is 5/2.
C20_Witness ==
    /\ SingleTeacherFirstStep /\ returned /\ imitation.unroll = 2
    /\ SqDist(measured[1].params, measured[1].variables[1]) = 5
    /\ SqDist(measured[2].params, measured[2].variables[1]) = 1
    /\ loss = Rat(5, 2)

\* The variable sets that the teachers step in one iteration: line 67 pairs
\* teachers with variable sets, up to the shorter of the two.
Stepped == DOMAIN zip([k \in 1..imitation.teachers |-> k], teacher_variables)

\* C21 as stated: imitation_loss fails when the number of teachers differs
\* from the number of variable sets of the problem, so whenever an iteration
\* has measured a loss every variable set was stepped by a teacher and every
\* teacher stepped a variable set.
C21_TeacherMismatch ==
    unroll_i >= 1 => /\ Stepped = DOMAIN teacher_variables
                     /\ Stepped = 1..imitation.teachers

\* One teacher on a problem of two variable sets: the call has returned a
\* loss, the first set was stepped away from the learner and the second was
\* left where it started, and its distance is part of the loss.
C21_Witness ==
    /\ returned /\ imitation.teachers = 1 /\ Len(teacher_variables) = 2
    /\ imitation.unroll = 1 /\ imitation.strategy = "reduce_mean"
    /\ ~imitation.use_log_objective
    /\ unroll_params = <<1, 2>>
    /\ teacher_variables = <<(<<1, 0>>), InitialParameters>>
    /\ loss = Rat(9, 4)

\* Two teachers on a problem of one variable set: the call has returned a
\* loss and the second teacher never stepped.
C21_WitnessSpareTeacher ==
    /\ returned /\ imitation.teachers = 2 /\ Len(teacher_variables) = 1
    /\ Stepped = {1}

\* C22 as stated: every validation step evaluates its loss with all
\* perturbation variables at zero, whatever steps came before it on the same
\* network, and the validation path does not touch the perturbation.
C22_ValidationAtZero ==
    \A r \in Replicas :
       (step = "valid" /\ outcome.status = "running")
       => /\ pc[r] = "done" => Zero(loss_at[r])
          /\ perturbable_variables[r] = entry_perturbable[r]

\* A training step raised after an adversarial round, and the validation
\* step called next has evaluated its loss on replica 1 under the
\* perturbation that round left.
C22_Witness ==
    /\ step = "valid" /\ outcome.status = "running" /\ calls = 2
    /\ pc[1] = "done" /\ trace[1] = <<"loss">>
    /\ ~Zero(loss_at[1])
    /\ loss_at[1] = entry_perturbable[1]

(***************************************************************************)
(* Properties of the perturbation bounds.                                  *)
(***************************************************************************)
\* The square of the L2 norm of a one-component tensor.
SqNorm(t) == t * t

\* The bounds of C23 on perturbable variables v after k apply_gradients
\* calls since the last reset, for the perturbation object p.
Bounded(p, v, k) ==
    /\ (p.cls = "PGD" /\ p.norm = "inf")
       => \A i \in DOMAIN v : -magnitude <= v[i] /\ v[i] <= magnitude
    /\ (p.cls = "PGD" /\ p.norm = "l2")
       => \A i \in DOMAIN v : SqNorm(v[i]) <= magnitude * magnitude
    /\ p.cls = "FGSM"
       => \A i \in DOMAIN v : Abs(v[i]) <= k * step_size

\* C23: starting from reset, after any number k of apply_gradients calls
\* every component of a PGD perturbation of norm "inf" lies in
\* [-magnitude, magnitude], every variable of a PGD perturbation of norm "l2"
\* has L2 norm at most magnitude, and every component of an FGSM perturbation
\* has absolute value at most k * step_size.
C23_Bounded == Bounded(ptb, noise, applies)

\* A PGD perturbation of norm "inf" after one call since the reset: the
\* gradient -3 would have taken the first component to -3 * learning_rate,
\* beyond the bound, and the projection has left it at -magnitude.
C23_Witness ==
    /\ ptb.cls = "PGD" /\ ptb.norm = "inf" /\ applies = 1
    /\ -3 * learning_rate < -magnitude
    /\ noise = <<-magnitude, magnitude>>

\* The same for norm "l2", after two calls.
C23_WitnessL2 ==
    /\ ptb.cls = "PGD" /\ ptb.norm = "l2" /\ applies = 2
    /\ noise = <<-magnitude, magnitude>>

\* An FGSM perturbation at its bound after MaxApplies calls, each of which
\* moved both components the same way.
C23_WitnessFGSM ==
    /\ ptb.cls = "FGSM" /\ applies = MaxApplies
    /\ noise = <<-MaxApplies * step_size, MaxApplies * step_size>>

\* The same bounds inside a training step, on every replica from its first
\* reset on, with k the adversarial rounds the step has run.
BoundedInStep ==
    (step = "train" /\ outcome.status = "running")
    => \A r \in Replicas :
          pc[r] # "reset"
          => Bounded(perturbation, perturbable_variables[r], rounds[r])

(***************************************************************************)
(* Specifications.  Each drives one component and holds the others still.  *)
(***************************************************************************)
StepIdle ==
    /\ perturbation = [cls |-> "Base", steps |-> 0, norm |-> "none"]
    /\ num_replicas = 1
    /\ trainable_variables = 0
    /\ perturbable_variables = <<build(perturbation)>>
    /\ validation = FALSE
    /\ step = "none"
    /\ pc = <<"idle">>
    /\ rounds = <<0>>
    /\ results = <<NoResults>>
    /\ clipped = <<0>>
    /\ outcome = Outcome("none")
    /\ calls = 0
    /\ entry_weights = 0
    /\ entry_perturbable = NoLoss
    /\ trace = << <<>> >>
    /\ loss_at = NoLoss

PtbIdle ==
    /\ ptb = [cls |-> "Base", steps |-> 0, norm |-> "none"]
    /\ noise = <<>>
    /\ applies = 0
    /\ resets = 0
    /\ before_reset = <<>>

StrategyIdle ==
    /\ config = [epochs_per_period |-> 1, validation_problems |-> "None"]
    /\ dir_exists = FALSE
    /\ foreign = FALSE
    /\ checkpoints = {}
    /\ csv = NoFile
    /\ constructed = FALSE
    /\ strategy = [problems |-> "None", validation_problems |-> "None",
                   epochs_per_period |-> 0]
    /\ summary = EmptyFrame
    /\ hooks = NoHooks
    /\ lp = [pc |-> "idle", training_loss |-> <<>>]
    /\ runs = <<>>
    /\ period = NoPeriod
    /\ base_rows = 0
    /\ appended = 0
    /\ prev_summary = EmptyFrame
    /\ last_row = NoRow
    /\ crash = NoCrash
    /\ found = NoLookup
    /\ replayed = NoReplay

ImitationIdle ==
    /\ imitation = [unroll |-> 1, weights |-> <<1>>, teachers |-> 1,
                    strategy |-> "reduce_mean", use_log_objective |-> FALSE]
    /\ unroll_params = InitialParameters
    /\ teacher_variables = <<InitialParameters>>
    /\ unroll_i = 0
    /\ loss = Rat(0, 1)
    /\ returned = FALSE
    /\ measured = <<>>

\* The step executor.
Init == StepInit /\ PtbIdle /\ StrategyIdle /\ ImitationIdle

Next == StepNext

Spec == Init /\ [][Next]_vars

\* A perturbation object driven by arbitrary reset / apply_gradients calls.
PerturbationInit == PtbInit /\ StepIdle /\ StrategyIdle /\ ImitationIdle

PerturbationNext == PtbNext

PerturbationSpec == PerturbationInit /\ [][PerturbationNext]_vars

\* A strategy over process restarts: construction, learning periods, appends.
StrategySpecInit == StrategyInit /\ StepIdle /\ PtbIdle /\ ImitationIdle

StrategySpecNext == StrategyNext

StrategySpec == StrategySpecInit /\ [][StrategySpecNext]_vars

\* One call of imitation_loss, for every choice of its arguments.
ImitationSpecInit == ImitationInit /\ StepIdle /\ PtbIdle /\ StrategyIdle

ImitationSpecNext == ImitationNext

ImitationSpec == ImitationSpecInit /\ [][ImitationSpecNext]_vars

====
